---- MODULE Spec2Model ----
(***************************************************************************)
(* Job worker of the ACE-Step API server:                                  *)
(*   acestep/api/jobs/worker_loops.py  process_queue_item                  *)
(* with the job store, queue and completion event of                       *)
(*   acestep/api/jobs/test_fakes.py.                                       *)
(*                                                                         *)
(* Python's None is the empty tuple and a present value v is <<v>>, so     *)
(* that "x or default" and "if x" are computed as Python computes them.    *)
(***************************************************************************)
EXTENDS Integers, Sequences, FiniteSets, TLC

\* ------------------------------------------------------------------ bounds
NumJobs == 2
NumWorkers == 2

Jobs == 1..NumJobs
Workers == 1..NumWorkers

\* ------------------------------------------------------- values of Python
None == <<>>
Some(v) == <<v>>
Val(o) == o[1]

\* bool(x) of an optional string payload: None and "" are false.
Truthy(o) == o # None /\ Val(o) # ""

\* x or default
OrElse(o, default) == IF Truthy(o) THEN Val(o) ELSE default

\* ------------------------------------------------------------ job records
Statuses == {"queued", "running", "succeeded", "failed"}

TerminalStatuses == {"succeeded", "failed"}

Results == {None, Some(""), Some("song")}

Errors == {None, Some("bad")}

\* str(exc) of the failures the execution routine raises
Messages == {"boom"}

\* str(exc) of a failed progress_queue.put
PutFailure == "closed"

GenerationFailed == "Generation failed"

ResultEvent(r) == [type |-> "result", result |-> r]

ErrorEvent(m) == [type |-> "error", content |-> m]

DoneEvent == [type |-> "done"]

\* A new record: status queued, progress_queue an empty channel or None,
\* done_event an unset event (the number of set() calls so far) or None.
NewRecord(has_queue, has_event) ==
    [status |-> "queued", result |-> None, error |-> None,
     progress_queue |-> IF has_queue THEN Some(<<>>) ELSE None,
     done_event |-> IF has_event THEN Some(0) ELSE None]

RecordShapes == {NewRecord(q, e) : q \in BOOLEAN, e \in BOOLEAN}

\* What run_one_job(job_id, req) does is decided by the request: the status,
\* result and error it leaves in the record, and whether it then raises.
\* A result is recorded only with succeeded and an error only with failed.
Requests ==
    {[status |-> s, result |-> r, error |-> e, raises |-> x] :
        s \in Statuses, r \in Results, e \in Errors,
        x \in {None} \cup {Some(m) : m \in Messages}}

ConsistentRequests ==
    {q \in Requests : /\ q.result # None => q.status = "succeeded"
                      /\ q.error # None => q.status = "failed"}

VARIABLES
    store,              \* job id -> JobRecord, for the ids the store knows
    mark_failed_calls,  \* _FakeStore.mark_failed_calls
    job_queue,          \* app_state.job_queue: (job_id, req) items, FIFO
    task_done_calls,    \* _FakeJobQueue.task_done_calls
    pending_ids,        \* app_state.pending_ids, a list
    pending_lock,       \* app_state.pending_lock: None or the holder
    run_calls,          \* job ids run_one_job was invoked with
    cleaned,            \* job ids cleanup_job_temp_files completed for
    submitted,          \* job id -> request, for the jobs enqueued so far
    pc,                 \* worker -> position in the worker
    job_id,             \* worker -> argument job_id of the current call
    req,                \* worker -> argument req of the current call
    rec,                \* worker -> local rec: None or a reference
    exc,                \* worker -> exception caught by "except Exception"
    raising,            \* worker -> exception propagating out of the call
    call_result,        \* job id -> how process_queue_item(job_id) ended
    registering,        \* job ids pushed whose pending-set insert is due
    loop_pc,            \* position in run_job_store_cleanup_loop
    cleanup_returns,    \* _FakeStore.cleanup_returns
    cleanup_call_count, \* _FakeStore.cleanup_call_count
    get_stats_calls,    \* calls of store.get_stats()
    removed,            \* local removed of the cleanup loop
    loop_exc,           \* exception caught in the cleanup loop
    log,                \* the messages passed to log_fn, in order
    raised,             \* the calls that raised an Exception in the loop
    ticks,              \* calls of sleep_fn
    cancel_requested,   \* the loop's task has a cancellation pending
    dl_env,             \* what ensure_model_downloaded is called with and finds
    dl_pc,              \* position in ensure_model_downloaded
    use_huggingface,    \* local use_huggingface
    probes,             \* calls of can_access_google
    attempts,           \* calls of download_from_huggingface / _modelscope
    snapshot_calls,     \* calls of the two snapshot_download functions
    dl_result,          \* the path ensure_model_downloaded returned
    dl_error,           \* the exception ensure_model_downloaded raised
    va_in,              \* validate_audio_path: argument path, and the cwd
    va_pc,              \* validate_audio_path: called or over
    va_out,             \* what validate_audio_path returned or raised
    up_env,             \* save_upload_to_temp: the upload and what fails
    up_pc,              \* position in save_upload_to_temp
    up_file,            \* the temp file: None, or the chunks written to it
    up_reads,           \* calls of upload.read
    up_remove_calls,    \* calls of os.remove(path)
    up_close_calls,     \* calls of upload.close
    up_exc,             \* exception propagating in save_upload_to_temp
    up_out,             \* what save_upload_to_temp returned or raised
    consumed            \* job id -> events the caller took off the channel

vars == <<store, mark_failed_calls, job_queue, task_done_calls, pending_ids,
          pending_lock, run_calls, cleaned, submitted, pc, job_id, req, rec,
          exc, raising, call_result, registering, loop_pc, cleanup_returns,
          cleanup_call_count, get_stats_calls, removed, loop_exc, log, raised,
          ticks, cancel_requested, dl_env, dl_pc, use_huggingface, probes,
          attempts, snapshot_calls, dl_result, dl_error, va_in, va_pc, va_out,
          up_env, up_pc, up_file, up_reads, up_remove_calls, up_close_calls,
          up_exc, up_out, consumed>>

storeVars == <<store, mark_failed_calls>>
queueVars == <<job_queue, task_done_calls, pending_ids, pending_lock, submitted>>
localVars == <<job_id, req, rec, exc, raising>>
traceVars == <<run_calls, cleaned>>
producerVars == <<registering>>
loopVars == <<loop_pc, cleanup_returns, cleanup_call_count, get_stats_calls,
              removed, loop_exc, log, raised, ticks, cancel_requested>>
downloadVars == <<dl_env, dl_pc, use_huggingface, probes, attempts,
                  snapshot_calls, dl_result, dl_error>>
pathVars == <<va_in, va_pc, va_out>>
uploadVars == <<up_env, up_pc, up_file, up_reads, up_remove_calls,
                up_close_calls, up_exc, up_out>>
readerVars == <<consumed>>
restVars == <<loopVars, downloadVars, pathVars, uploadVars, readerVars>>
otherVars == <<producerVars, restVars>>
workerVars == <<storeVars, queueVars, localVars, traceVars, pc, call_result,
                producerVars>>

\* ------------------------------------------------------------- the store

\* _FakeStore.get / dict lookup: the record, or None for an unknown id.
StoreGet(st, j) == IF j \in DOMAIN st THEN Some(j) ELSE None

\* rec.<field> through the reference rec
Deref(st, r) == st[Val(r)]

IsTerminal(status) == status \in TerminalStatuses

\* store.mark_failed(job_id, error) on the record
MarkFailed(st, j, m) ==
    IF j \in DOMAIN st
    THEN [st EXCEPT ![j].status = "failed", ![j].error = Some(m)]
    ELSE st

\* await rec.progress_queue.put(event)
Put(st, j, event) ==
    [st EXCEPT ![j].progress_queue = Some(Append(Val(@), event))]

\* rec.done_event.set()
SetEvent(st, j) == [st EXCEPT ![j].done_event = Some(Val(@) + 1)]

\* list.count(x)
Count(seq, x) == Cardinality({i \in DOMAIN seq : seq[i] = x})

\* list.remove(x): drops the first occurrence; absence is the ValueError
\* the worker ignores.
RECURSIVE ListRemove(_, _)
ListRemove(list, x) ==
    IF list = <<>> THEN <<>>
    ELSE IF Head(list) = x THEN Tail(list)
    ELSE <<Head(list)>> \o ListRemove(Tail(list), x)

HasQueue(st, r) == r # None /\ Deref(st, r).progress_queue # None

HasEvent(st, r) == r # None /\ Deref(st, r).done_event # None

\* ---------------------------------------------------------------- state

Idle == [w \in Workers |-> None]

\* The cleanup loop is not started.
LoopOff ==
    /\ loop_pc = "off"
    /\ cleanup_returns = <<>>
    /\ cleanup_call_count = 0
    /\ get_stats_calls = 0
    /\ removed = None
    /\ loop_exc = None
    /\ log = <<>>
    /\ raised = <<>>
    /\ ticks = 0
    /\ cancel_requested = FALSE

\* No job is enqueued and every worker waits for one.
WorkersIdle ==
    /\ mark_failed_calls = <<>>
    /\ job_queue = <<>>
    /\ task_done_calls = 0
    /\ pending_ids = <<>>
    /\ pending_lock = None
    /\ run_calls = <<>>
    /\ cleaned = <<>>
    /\ submitted = << >>
    /\ pc = [w \in Workers |-> "idle"]
    /\ job_id = Idle
    /\ req = Idle
    /\ rec = Idle
    /\ exc = Idle
    /\ raising = Idle
    /\ call_result = [j \in Jobs |-> "pending"]
    /\ registering = {}

\* ensure_model_downloaded is not called.
DownloadOff ==
    /\ dl_env = << >>
    /\ dl_pc = "off"
    /\ use_huggingface = None
    /\ probes = 0
    /\ attempts = <<>>
    /\ snapshot_calls = <<>>
    /\ dl_result = None
    /\ dl_error = None

\* validate_audio_path is not called.
PathOff ==
    /\ va_in = << >>
    /\ va_pc = "off"
    /\ va_out = << >>

\* save_upload_to_temp is not called.
UploadOff ==
    /\ up_env = << >>
    /\ up_pc = "off"
    /\ up_file = None
    /\ up_reads = 0
    /\ up_remove_calls = 0
    /\ up_close_calls = 0
    /\ up_exc = None
    /\ up_out = << >>

\* No caller has taken an event off a progress channel.
ReaderOff == consumed = [j \in Jobs |-> 0]

InitCommon ==
    /\ WorkersIdle
    /\ LoopOff
    /\ DownloadOff
    /\ PathOff
    /\ UploadOff
    /\ ReaderOff

\* One job, whose record is missing or has any shape.
Init ==
    /\ InitCommon
    /\ \/ store = << >>
       \/ \E shape \in RecordShapes : store = (1 :> shape)

\* ------------------------------------------------------------- producer

\* The producer pushes (job_id, req) and registers the id as pending.
Submit(j, q) ==
    /\ j \notin DOMAIN submitted
    /\ submitted' = (j :> q) @@ submitted
    /\ job_queue' = Append(job_queue, <<j, q>>)
    /\ pending_ids' = Append(pending_ids, j)
    /\ UNCHANGED <<otherVars, storeVars, task_done_calls, pending_lock, traceVars, pc,
                   localVars, call_result>>

\* --------------------------------------------------------------- worker

Goto(w, label) == pc' = [pc EXCEPT ![w] = label]

\* job_id, req = await job_queue.get(); process_queue_item(job_id, req, ...)
Dequeue(w) ==
    /\ pc[w] = "idle"
    /\ job_queue # <<>>
    /\ job_id' = [job_id EXCEPT ![w] = Some(Head(job_queue)[1])]
    /\ req' = [req EXCEPT ![w] = Some(Head(job_queue)[2])]
    /\ job_queue' = Tail(job_queue)
    /\ rec' = [rec EXCEPT ![w] = None]
    /\ exc' = [exc EXCEPT ![w] = None]
    /\ raising' = [raising EXCEPT ![w] = None]
    /\ Goto(w, "get")
    /\ UNCHANGED <<otherVars, storeVars, task_done_calls, pending_ids, pending_lock,
                   submitted, traceVars, call_result>>

\* rec = store.get(job_id)
LookupRecord(w) ==
    /\ pc[w] = "get"
    /\ rec' = [rec EXCEPT ![w] = StoreGet(store, Val(job_id[w]))]
    /\ Goto(w, "lock")
    /\ UNCHANGED <<otherVars, storeVars, queueVars, traceVars, job_id, req, exc, raising,
                   call_result>>

\* Line 30 entered without taking the lock.
AcquirePendingLock_NoLock(w) ==
    /\ pc[w] = "lock"
    /\ Goto(w, "remove")
    /\ UNCHANGED <<otherVars, storeVars, queueVars, traceVars, localVars, call_result>>

\* async with app_state.pending_lock: (entry)
AcquirePendingLock(w) ==
    /\ pc[w] = "lock"
    /\ pending_lock = None
    /\ pending_lock' = Some(w)
    /\ Goto(w, "remove")
    /\ UNCHANGED <<otherVars, storeVars, job_queue, task_done_calls, pending_ids,
                   submitted, traceVars, localVars, call_result>>

\* Lines 30-34 without the try/except of lines 31-34: the ValueError of an
\* absent id is caught by line 47.
RemovePending_Strict(w) ==
    /\ pc[w] = "remove"
    /\ pending_ids' = ListRemove(pending_ids, Val(job_id[w]))
    /\ pending_lock' = None
    /\ IF Count(pending_ids, Val(job_id[w])) = 0
       THEN /\ exc' = [exc EXCEPT ![w] = Some("ValueError")]
            /\ Goto(w, "h_mark")
       ELSE /\ exc' = exc
            /\ Goto(w, "run")
    /\ UNCHANGED <<otherVars, storeVars, job_queue, task_done_calls, submitted,
                   traceVars, job_id, req, rec, raising, call_result>>

\* Lines 30-34 with the removal left out.
RemovePending_Kept(w) ==
    /\ pc[w] = "remove"
    /\ pending_lock' = None
    /\ Goto(w, "run")
    /\ UNCHANGED <<otherVars, storeVars, job_queue, task_done_calls, pending_ids,
                   submitted, traceVars, localVars, call_result>>

\* pending_ids.remove(job_id), ValueError ignored; the lock is released
RemovePending(w) ==
    /\ pc[w] = "remove"
    /\ pending_ids' = ListRemove(pending_ids, Val(job_id[w]))
    /\ pending_lock' = None
    /\ Goto(w, "run")
    /\ UNCHANGED <<otherVars, storeVars, job_queue, task_done_calls, submitted, traceVars,
                   localVars, call_result>>

\* The record after run_one_job(job_id, req) has acted on it.
RoutineEffect(st, j, q) ==
    IF j \in DOMAIN st
    THEN [st EXCEPT ![j].status = q.status, ![j].result = q.result,
                    ![j].error = q.error]
    ELSE st

\* Line 36 under an except clause too narrow to catch the routine's
\* failure: it propagates through the finally block.
RunOneJob_Uncaught(w) ==
    /\ pc[w] = "run"
    /\ store' = RoutineEffect(store, Val(job_id[w]), Val(req[w]))
    /\ raising' = [raising EXCEPT ![w] = Val(req[w]).raises]
    /\ run_calls' = Append(run_calls, Val(job_id[w]))
    /\ Goto(w, IF Val(req[w]).raises = None THEN "notify" ELSE "cleanup")
    /\ UNCHANGED <<otherVars, mark_failed_calls, queueVars, cleaned, job_id, req, rec,
                   exc, call_result>>

\* Line 36 with the routine awaited a second time.
RunOneJob_Twice(w) ==
    /\ pc[w] = "run"
    /\ store' = RoutineEffect(store, Val(job_id[w]), Val(req[w]))
    /\ exc' = [exc EXCEPT ![w] = Val(req[w]).raises]
    /\ run_calls' = run_calls \o <<Val(job_id[w]), Val(job_id[w])>>
    /\ Goto(w, IF Val(req[w]).raises = None THEN "notify" ELSE "h_mark")
    /\ UNCHANGED <<otherVars, mark_failed_calls, queueVars, cleaned, job_id, req, rec,
                   raising, call_result>>

\* await run_one_job(job_id, req): returns, or raises into the handler
RunOneJob(w) ==
    /\ pc[w] = "run"
    /\ store' = RoutineEffect(store, Val(job_id[w]), Val(req[w]))
    /\ exc' = [exc EXCEPT ![w] = Val(req[w]).raises]
    /\ run_calls' = Append(run_calls, Val(job_id[w]))
    /\ Goto(w, IF Val(req[w]).raises = None THEN "notify" ELSE "h_mark")
    /\ UNCHANGED <<otherVars, mark_failed_calls, queueVars, cleaned, job_id, req, rec,
                   raising, call_result>>

\* Lines 39-42 with a status test that never matches "succeeded".
OutcomeEvent_NoResult(r) ==
    IF r.status = "failed"
    THEN Some(ErrorEvent(OrElse(r.error, GenerationFailed)))
    ELSE None

\* Lines 39-42 without the elif branch of line 41.
OutcomeEvent_NoError(r) ==
    IF r.status = "succeeded" /\ Truthy(r.result)
    THEN Some(ResultEvent(Val(r.result)))
    ELSE None

\* Lines 39-42 with "else" in place of "elif rec.status == 'failed'".
OutcomeEvent_ErrorByDefault(r) ==
    IF r.status = "succeeded" /\ Truthy(r.result)
    THEN Some(ResultEvent(Val(r.result)))
    ELSE Some(ErrorEvent(OrElse(r.error, GenerationFailed)))

\* The event lines 39-42 publish for the record as it is now, if any.
OutcomeEvent(r) ==
    IF r.status = "succeeded" /\ Truthy(r.result)
    THEN Some(ResultEvent(Val(r.result)))
    ELSE IF r.status = "failed"
    THEN Some(ErrorEvent(OrElse(r.error, GenerationFailed)))
    ELSE None

\* Lines 38-42 with done_event.set() of lines 44-45 moved above the puts.
NotifyOutcome_SignalsFirst(w) ==
    /\ pc[w] = "notify"
    /\ LET st == IF HasEvent(store, rec[w])
                 THEN SetEvent(store, Val(rec[w]))
                 ELSE store
       IN IF HasQueue(store, rec[w])
          THEN /\ store' = IF OutcomeEvent(Deref(store, rec[w])) # None
                           THEN Put(st, Val(rec[w]),
                                    Val(OutcomeEvent(Deref(store, rec[w]))))
                           ELSE st
               /\ Goto(w, "put_done")
          ELSE /\ store' = st
               /\ Goto(w, "cleanup")
    /\ UNCHANGED <<otherVars, mark_failed_calls, queueVars, traceVars, localVars,
                   call_result>>

\* Lines 38-42: if rec and rec.progress_queue: put result / put error
NotifyOutcome(w) ==
    /\ pc[w] = "notify"
    /\ IF HasQueue(store, rec[w])
       THEN /\ store' = IF OutcomeEvent(Deref(store, rec[w])) # None
                        THEN Put(store, Val(rec[w]),
                                 Val(OutcomeEvent(Deref(store, rec[w]))))
                        ELSE store
            /\ Goto(w, "put_done")
       ELSE /\ store' = store
            /\ Goto(w, "set_done")
    /\ UNCHANGED <<otherVars, mark_failed_calls, queueVars, traceVars, localVars,
                   call_result>>

\* Line 43: await rec.progress_queue.put({"type": "done"})
PutDone(w) ==
    /\ pc[w] = "put_done"
    /\ store' = Put(store, Val(rec[w]), DoneEvent)
    /\ Goto(w, "set_done")
    /\ UNCHANGED <<otherVars, mark_failed_calls, queueVars, traceVars, localVars,
                   call_result>>

\* Lines 44-45: if rec and rec.done_event: rec.done_event.set()
SetDone(w) ==
    /\ pc[w] = "set_done"
    /\ store' = IF HasEvent(store, rec[w])
                THEN SetEvent(store, Val(rec[w]))
                ELSE store
    /\ Goto(w, "cleanup")
    /\ UNCHANGED <<otherVars, mark_failed_calls, queueVars, traceVars, localVars,
                   call_result>>

\* Line 48 without the test of the status.
ShouldMarkFailed_Always(st, r) == r # None

\* Line 48 with "in" for "not in".
ShouldMarkFailed_Inverted(st, r) == r # None /\ IsTerminal(Deref(st, r).status)

\* Line 48 without the test of rec.
ShouldMarkFailed_NoRecord(st, r) == r = None \/ ~IsTerminal(Deref(st, r).status)

\* Line 48: the guard of store.mark_failed
ShouldMarkFailed(st, r) == r # None /\ ~IsTerminal(Deref(st, r).status)

\* Lines 47-49: except Exception as exc: mark the record failed
HandlerMarkFailed(w) ==
    /\ pc[w] = "h_mark"
    /\ IF ShouldMarkFailed(store, rec[w])
       THEN /\ store' = MarkFailed(store, Val(job_id[w]), Val(exc[w]))
            /\ mark_failed_calls' =
                   Append(mark_failed_calls, <<Val(job_id[w]), Val(exc[w])>>)
       ELSE UNCHANGED storeVars
    /\ Goto(w, IF HasQueue(store, rec[w]) THEN "h_error" ELSE "h_set")
    /\ UNCHANGED <<otherVars, queueVars, traceVars, localVars, call_result>>

\* Line 51 publishing the fallback message of line 42 for str(exc).
HandlerPutError_Generic(w) ==
    /\ pc[w] = "h_error"
    /\ store' = Put(store, Val(rec[w]), ErrorEvent(GenerationFailed))
    /\ Goto(w, "h_done")
    /\ UNCHANGED <<otherVars, mark_failed_calls, queueVars, traceVars, localVars,
                   call_result>>

\* Line 51: await rec.progress_queue.put({"type": "error", ...str(exc)})
HandlerPutError(w) ==
    /\ pc[w] = "h_error"
    /\ store' = Put(store, Val(rec[w]), ErrorEvent(Val(exc[w])))
    /\ Goto(w, "h_done")
    /\ UNCHANGED <<otherVars, mark_failed_calls, queueVars, traceVars, localVars,
                   call_result>>

\* Line 52 without its put: the handler ends the stream without done.
HandlerPutDone_Dropped(w) ==
    /\ pc[w] = "h_done"
    /\ Goto(w, "h_set")
    /\ UNCHANGED <<otherVars, storeVars, queueVars, traceVars, localVars, call_result>>

\* Line 52: await rec.progress_queue.put({"type": "done"})
HandlerPutDone(w) ==
    /\ pc[w] = "h_done"
    /\ store' = Put(store, Val(rec[w]), DoneEvent)
    /\ Goto(w, "h_set")
    /\ UNCHANGED <<otherVars, mark_failed_calls, queueVars, traceVars, localVars,
                   call_result>>

\* Lines 53-54: if rec and rec.done_event: rec.done_event.set()
HandlerSetDone(w) ==
    /\ pc[w] = "h_set"
    /\ store' = IF HasEvent(store, rec[w])
                THEN SetEvent(store, Val(rec[w]))
                ELSE store
    /\ Goto(w, "cleanup")
    /\ UNCHANGED <<otherVars, mark_failed_calls, queueVars, traceVars, localVars,
                   call_result>>

\* Line 56: finally: await cleanup_job_temp_files(job_id)
CleanupTempFiles(w) ==
    /\ pc[w] = "cleanup"
    /\ cleaned' = Append(cleaned, Val(job_id[w]))
    /\ Goto(w, "task_done")
    /\ UNCHANGED <<otherVars, storeVars, queueVars, run_calls, localVars, call_result>>

\* How the call ends once the finally block is through: the exception that
\* was propagating is re-raised, or the call returns None.
EndOfCall(pending) == IF pending = None THEN "returned" ELSE "raised"

\* Where the worker goes when the call has ended: a call that raised ends
\* the worker task, a call that returned lets it dequeue again.
AfterCall(result) == IF result = "returned" THEN "idle" ELSE "crashed"

\* Line 57: app_state.job_queue.task_done(), then the call ends
TaskDone(w) ==
    /\ pc[w] = "task_done"
    /\ task_done_calls' = task_done_calls + 1
    /\ call_result' =
           [call_result EXCEPT ![Val(job_id[w])] = EndOfCall(raising[w])]
    /\ Goto(w, AfterCall(EndOfCall(raising[w])))
    /\ UNCHANGED <<otherVars, storeVars, job_queue, pending_ids, pending_lock, submitted,
                   traceVars, localVars>>

\* ------------------------------------------- failures of the collaborators

\* store.get(job_id) raises: line 28 is outside the try, the call ends.
LookupRaises(w) ==
    /\ pc[w] = "get"
    /\ raising' = [raising EXCEPT ![w] = Some("lookup")]
    /\ call_result' = [call_result EXCEPT ![Val(job_id[w])] = "raised"]
    /\ Goto(w, AfterCall("raised"))
    /\ UNCHANGED <<otherVars, storeVars, queueVars, traceVars, job_id, req, rec, exc>>

\* A put of lines 40, 42 or 43 raises: nothing is enqueued, the exception
\* is caught by "except Exception" of line 47.
PutRaises(w) ==
    /\ \/ /\ pc[w] = "notify"
          /\ HasQueue(store, rec[w])
          /\ OutcomeEvent(Deref(store, rec[w])) # None
       \/ pc[w] = "put_done"
    /\ exc' = [exc EXCEPT ![w] = Some(PutFailure)]
    /\ Goto(w, "h_mark")
    /\ UNCHANGED <<otherVars, storeVars, queueVars, traceVars, job_id, req, rec, raising,
                   call_result>>

\* A put of lines 51 or 52 raises inside the handler: the exception
\* propagates through the finally block.
HandlerPutRaises(w) ==
    /\ pc[w] \in {"h_error", "h_done"}
    /\ raising' = [raising EXCEPT ![w] = Some(PutFailure)]
    /\ Goto(w, "cleanup")
    /\ UNCHANGED <<otherVars, storeVars, queueVars, traceVars, job_id, req, rec, exc,
                   call_result>>

\* cleanup_job_temp_files raises: line 57 is skipped, the call ends.
CleanupRaises(w) ==
    /\ pc[w] = "cleanup"
    /\ raising' = [raising EXCEPT ![w] = Some("cleanup")]
    /\ call_result' = [call_result EXCEPT ![Val(job_id[w])] = "raised"]
    /\ Goto(w, AfterCall("raised"))
    /\ UNCHANGED <<otherVars, storeVars, queueVars, traceVars, job_id, req, rec, exc>>

\* ------------------------------------------------------- specifications

ProcessQueueItem(w) ==
    \/ LookupRecord(w)
    \/ AcquirePendingLock(w)
    \/ RemovePending(w)
    \/ RunOneJob(w)
    \/ NotifyOutcome(w)
    \/ PutDone(w)
    \/ SetDone(w)
    \/ HandlerMarkFailed(w)
    \/ HandlerPutError(w)
    \/ HandlerPutDone(w)
    \/ HandlerSetDone(w)
    \/ CleanupTempFiles(w)
    \/ TaskDone(w)

CollaboratorFails(w) ==
    \/ LookupRaises(w)
    \/ PutRaises(w)
    \/ HandlerPutRaises(w)
    \/ CleanupRaises(w)

\* One call of process_queue_item, on every record and every outcome of the
\* execution routine; the other collaborators keep their contracts.
Next ==
    \/ \E q \in ConsistentRequests : Submit(1, q)
    \/ \E w \in Workers : Dequeue(w)
    \/ \E w \in Workers : ProcessQueueItem(w)

Spec == Init /\ [][Next]_vars

\* The same call when the record lookup, a put on the progress channel or
\* the temp-file cleanup may raise as well.
FaultNext ==
    \/ Next
    \/ \E w \in Workers : CollaboratorFails(w)

FaultSpec == Init /\ [][FaultNext]_vars

\* N workers draining a queue of jobs whose records all have a progress
\* channel and a completion signal; a routine either records a success and
\* returns, or raises with the job still running.
PoolRequests ==
    {[status |-> "succeeded", result |-> Some("song"), error |-> None,
      raises |-> None],
     [status |-> "running", result |-> None, error |-> None,
      raises |-> Some("boom")]}

PoolInit ==
    /\ InitCommon
    /\ store = [j \in Jobs |-> NewRecord(TRUE, TRUE)]

PoolNext ==
    \/ \E j \in Jobs : \E q \in PoolRequests : Submit(j, q)
    \/ \E w \in Workers : Dequeue(w)
    \/ \E w \in Workers : ProcessQueueItem(w)

PoolSpec == PoolInit /\ [][PoolNext]_vars

\* The same workers with the producer of spec section 2 in its two steps:
\* it pushes (job_id, req) into the queue, then inserts the id into the
\* pending set under the lock. A worker may claim the job in between. Job
\* ids are numbered in the order of their pushes; the routine records a
\* success and returns for the odd ones and raises for the even ones.
QueueRequest(j) ==
    CHOOSE q \in PoolRequests : (q.raises = None) <=> (j % 2 = 1)

Push(j, q) ==
    /\ j = Cardinality(DOMAIN submitted) + 1
    /\ submitted' = (j :> q) @@ submitted
    /\ job_queue' = Append(job_queue, <<j, q>>)
    /\ registering' = registering \cup {j}
    /\ UNCHANGED <<restVars, storeVars, task_done_calls, pending_ids, pending_lock,
                   traceVars, pc, localVars, call_result>>

Register(j) ==
    /\ j \in registering
    /\ pending_lock = None
    /\ pending_ids' = Append(pending_ids, j)
    /\ registering' = registering \ {j}
    /\ UNCHANGED <<restVars, storeVars, job_queue, task_done_calls, pending_lock,
                   submitted, traceVars, pc, localVars, call_result>>

\* The idle workers all wait in job_queue.get() and are interchangeable:
\* the item goes to the first of them.
DequeueByFirstIdle(w) ==
    /\ \A v \in Workers : v < w => pc[v] # "idle"
    /\ Dequeue(w)

QueueNext ==
    \/ \E j \in Jobs : Push(j, QueueRequest(j))
    \/ \E j \in Jobs : Register(j)
    \/ \E w \in Workers : DequeueByFirstIdle(w)
    \/ \E w \in Workers : ProcessQueueItem(w)

QueueSpec == PoolInit /\ [][QueueNext]_vars

\* ------------------------------------------------- what a call has done

\* The job has a record with a progress channel / a completion signal.
Listening(j) == j \in DOMAIN store /\ store[j].progress_queue # None

Signalled(j) == j \in DOMAIN store /\ store[j].done_event # None

\* The events put on the job's progress channel so far, in order.
Channel(j) == Val(store[j].progress_queue)

EventsOfType(j, t) == {i \in DOMAIN Channel(j) : Channel(j)[i].type = t}

SetCalls(j) == Val(store[j].done_event)

Ended(j) == call_result[j] # "pending"

\* Worker w is in, or was last in, the call for job j.
CallOf(w, j) == job_id[w] = Some(j)

\* The try/except part of w's call is over and nothing is propagating.
Notified(w) == pc[w] \in {"cleanup", "task_done", "idle"} /\ raising[w] = None

\* ------------------------------------------------------------------- C1

\* C1 as stated: every call for a job whose record has a progress channel
\* has put exactly one done event, the last event of the channel, when it
\* ends, also when a notification step failed (the lookup succeeded).
C1_ExactlyOneDoneOnEveryPath ==
    \A w \in Workers : \A j \in Jobs :
        (/\ CallOf(w, j) /\ rec[w] # None /\ Listening(j) /\ Ended(j)
         /\ raising[w] # Some("cleanup"))
            => /\ Cardinality(EventsOfType(j, "done")) = 1
               /\ Channel(j)[Len(Channel(j))] = DoneEvent

\* C1 amended: at most one done event is ever put on a job's channel and no
\* event follows it; exactly one has been put whenever the notification
\* part of the call ended without a failure propagating, that is unless a
\* put raised inside the failure handler (then none is put).
C1_DoneAtMostOnceAndLast ==
    \A j \in Jobs : Listening(j) =>
        /\ Cardinality(EventsOfType(j, "done")) <= 1
        /\ \A i \in EventsOfType(j, "done") : i = Len(Channel(j))
        /\ \A w \in Workers : (CallOf(w, j) /\ Notified(w))
               => Cardinality(EventsOfType(j, "done")) = 1
        /\ call_result[j] = "returned"
               => Cardinality(EventsOfType(j, "done")) = 1

\* A put of the normal path failed, the handler published error and done,
\* and the call returned.
C1_Witness ==
    \E w \in Workers : \E j \in Jobs :
        /\ CallOf(w, j) /\ Listening(j)
        /\ call_result[j] = "returned"
        /\ exc[w] = Some(PutFailure)
        /\ Channel(j) = <<ErrorEvent(PutFailure), DoneEvent>>

\* ------------------------------------------------------------------- C2

\* C2 as stated: once the call for a dequeued job has ended, on whatever
\* path, cleanup_job_temp_files has completed exactly once for the job and
\* task_done has been called exactly once for each call that has ended.
C2_CleanupAndAckOnEveryExit ==
    \A j \in Jobs : Ended(j) =>
        /\ Count(cleaned, j) = 1
        /\ task_done_calls = Cardinality({k \in Jobs : Ended(k)})

\* ------------------------------------------------------------------- C3

MarkFailedCallsFor(calls, j) == {i \in DOMAIN calls : calls[i][1] = j}

\* C5: no step changes the status or the error of a record whose status is
\* succeeded or failed, and no step calls store.mark_failed for its job; so
\* a routine that raises after recording a terminal status is not marked.
C5_TerminalStatusKept ==
    [][\A j \in DOMAIN store :
          IsTerminal(store[j].status)
              => /\ store'[j].status = store[j].status
                 /\ store'[j].error = store[j].error
                 /\ MarkFailedCallsFor(mark_failed_calls', j)
                        = MarkFailedCallsFor(mark_failed_calls, j)]_vars

\* The routine recorded succeeded and raised; the handler is past line 49.
C5_Witness ==
    \E w \in Workers : \E j \in Jobs :
        /\ CallOf(w, j) /\ j \in DOMAIN store
        /\ exc[w] = Some("boom")
        /\ pc[w] \in {"h_error", "h_set", "cleanup"}
        /\ store[j].status = "succeeded"
        /\ store[j].error = None
        /\ mark_failed_calls = <<>>

\* ------------------------------------------------------------------- C6

\* C6 as stated: done_event.set() is called at most once per job and only
\* when the record's status is succeeded or failed.
C6_SignalOnlyWhenTerminal ==
    \A j \in Jobs : Signalled(j) =>
        /\ SetCalls(j) <= 1
        /\ SetCalls(j) >= 1 => IsTerminal(store[j].status)

\* C6 amended: done_event.set() is called at most once per job; it is
\* called once on every path on which no failure propagates; when it is
\* called from the failure handler the status is terminal, but after a
\* normal return of the routine it is called whatever the status is, also
\* queued or running.
C6_SignalAtMostOnce ==
    \A j \in Jobs : Signalled(j) =>
        /\ SetCalls(j) <= 1
        /\ \A w \in Workers : CallOf(w, j) =>
               /\ (SetCalls(j) >= 1 /\ exc[w] # None)
                      => IsTerminal(store[j].status)
               /\ Notified(w) => SetCalls(j) = 1

\* The routine returned leaving the status running; the signal is set.
C6_Witness ==
    \E w \in Workers : \E j \in Jobs :
        /\ CallOf(w, j) /\ Signalled(j)
        /\ call_result[j] = "returned"
        /\ exc[w] = None
        /\ store[j].status = "running"
        /\ SetCalls(j) = 1

\* ------------------------------------------------------------------- C7

PayloadEvents(j) == EventsOfType(j, "result") \cup EventsOfType(j, "error")

\* C7: on a job's channel done never precedes a result or error event; the
\* completion signal is set only after done has been put on the job's
\* channel; and once it is set no further event is put on the channel.
C7_SignalAfterAllEvents ==
    /\ [](\A j \in Jobs : Listening(j) =>
             /\ \A d \in EventsOfType(j, "done") :
                    \A e \in PayloadEvents(j) : e < d
             /\ (Signalled(j) /\ SetCalls(j) >= 1)
                    => EventsOfType(j, "done") # {})
    /\ [][\A j \in DOMAIN store :
             (Signalled(j) /\ SetCalls(j) >= 1)
                 => store'[j].progress_queue = store[j].progress_queue]_vars

C7_Witness ==
    \E j \in Jobs :
        /\ Listening(j) /\ Signalled(j)
        /\ Channel(j) = <<ResultEvent("song"), DoneEvent>>
        /\ SetCalls(j) = 1

\* ------------------------------------------------------------------- C8

\* The request of job j makes the routine raise while the status it leaves
\* is not terminal.
RaisesUnfinished(j) ==
    /\ j \in DOMAIN submitted
    /\ submitted[j].raises # None
    /\ ~IsTerminal(submitted[j].status)

MarkFailedCallsOf(j) == SelectSeq(mark_failed_calls, LAMBDA c : c[1] = j)

\* C8: when the routine raised with message m for a job with a record whose
\* status was not terminal, the ended call returned, the record is failed
\* with error m, mark_failed was called once with (job_id, m), the channel
\* holds exactly [error(m), done], the completion signal is set, the temp
\* files are cleaned and the queue slot is acknowledged.
C8_RaiseMarksFailedAndNotifies ==
    \A j \in Jobs :
        (j \in DOMAIN store /\ Ended(j) /\ RaisesUnfinished(j))
            => LET m == Val(submitted[j].raises)
               IN /\ call_result[j] = "returned"
                  /\ store[j].status = "failed"
                  /\ store[j].error = Some(m)
                  /\ MarkFailedCallsOf(j) = << <<j, m>> >>
                  /\ Listening(j)
                         => Channel(j) = <<ErrorEvent(m), DoneEvent>>
                  /\ Signalled(j) => SetCalls(j) = 1
                  /\ Count(cleaned, j) = 1
                  /\ task_done_calls = Cardinality({k \in Jobs : Ended(k)})

C8_Witness ==
    \E j \in Jobs :
        /\ Listening(j) /\ Signalled(j) /\ Ended(j) /\ RaisesUnfinished(j)
        /\ submitted[j].status = "queued"
        /\ store[j].status = "failed"
        /\ store[j].error = Some("boom")
        /\ Channel(j) = <<ErrorEvent("boom"), DoneEvent>>
        /\ SetCalls(j) = 1
        /\ cleaned = <<j>>
        /\ task_done_calls = 1

\* ------------------------------------------------------------------- C9

\* C9: whatever the routines raise, no call of process_queue_item ends by
\* raising and no worker is ended by it; and a step of a worker changes no
\* record, channel or completion signal but those of the job it is
\* processing.
C9_FailureContained ==
    /\ [](/\ \A j \in Jobs : call_result[j] # "raised"
          /\ \A w \in Workers : pc[w] # "crashed")
    /\ [][\A w \in Workers : pc'[w] # pc[w] =>
             \A k \in DOMAIN store :
                 job_id'[w] # Some(k) => store'[k] = store[k]]_vars

\* A worker whose call for one job returned after the routine raised is
\* running the next job it dequeued; no other worker has dequeued anything.
C9_Witness ==
    \E w \in Workers : \E j1 \in Jobs : \E j2 \in Jobs \ {j1} :
        /\ call_result[j1] = "returned"
        /\ submitted[j1].raises # None
        /\ store[j1].status = "failed"
        /\ CallOf(w, j2) /\ pc[w] = "notify"
        /\ submitted[j2].raises = None
        /\ \A v \in Workers \ {w} : job_id[v] = None

\* ------------------------------------------------------------------ C10

NothingToNotify(j) ==
    \/ j \notin DOMAIN store
    \/ store[j].progress_queue = None /\ store[j].done_event = None

\* C10: a call for a job without a record, or whose record has neither a
\* progress channel nor a completion signal, returns without raising, has
\* invoked the routine once, cleaned the temp files once and acknowledged
\* the queue slot; the record still has no channel and no signal, and
\* mark_failed was never called for a missing record.
C10_NothingToNotifyIsTolerated ==
    \A j \in Jobs :
        (Ended(j) /\ NothingToNotify(j))
            => /\ call_result[j] = "returned"
               /\ Count(run_calls, j) = 1
               /\ j \notin DOMAIN store => MarkFailedCallsOf(j) = <<>>
               /\ Count(cleaned, j) = 1
               /\ task_done_calls = Cardinality({k \in Jobs : Ended(k)})

\* The record is missing and the routine raised; the call returned.
C10_Witness ==
    \E j \in Jobs :
        /\ j \notin DOMAIN store
        /\ call_result[j] = "returned"
        /\ submitted[j].raises # None
        /\ run_calls = <<j>>
        /\ mark_failed_calls = <<>>
        /\ cleaned = <<j>>
        /\ task_done_calls = 1

\* ------------------------------------------------------------------ C11

\* Worker w is inside the call for job j.
InCall(w, j) == CallOf(w, j) /\ pc[w] \notin {"idle", "crashed"}

\* C11: a removal step that finds job_id absent from the pending set leaves
\* the set, the store and mark_failed_calls as they are, catches nothing
\* and goes on to the routine; and a job whose routine returns after
\* recording a success ends succeeded, run once, never marked failed and
\* without an error event, whether or not its id was in the set.
C11_AbsentIdIsIgnored ==
    /\ [][\A w \in Workers :
             (/\ pc[w] = "remove" /\ pc'[w] # "remove"
              /\ Count(pending_ids, Val(job_id[w])) = 0)
                 => /\ pending_ids' = pending_ids
                    /\ pc'[w] = "run"
                    /\ exc'[w] = None
                    /\ storeVars' = storeVars]_vars
    /\ [](\A j \in Jobs :
             (Ended(j) /\ submitted[j].raises = None)
                 => /\ Count(run_calls, j) = 1
                    /\ store[j].status = "succeeded"
                    /\ EventsOfType(j, "error") = {}
                    /\ MarkFailedCallsOf(j) = <<>>)

\* The worker removed before the producer inserted: the id was absent at
\* the removal (it is in the set now), and the job ended succeeded.
C11_Witness ==
    \E j \in Jobs :
        /\ call_result[j] = "returned"
        /\ Count(pending_ids, j) = 1
        /\ store[j].status = "succeeded"
        /\ Channel(j) = <<ResultEvent("song"), DoneEvent>>
        /\ mark_failed_calls = <<>>

\* C12: a worker changes the pending-id list only while it holds pending_lock,
\* and a worker holds pending_lock at the removal only, never while its
\* routine, a put on the channel or the temp-file cleanup is in progress; so
\* whenever no worker is at its removal the lock is free for any other worker.
C12_LockHeldForRemovalOnly ==
    /\ [][\A w \in Workers :
             (pc'[w] # pc[w] /\ pending_ids' # pending_ids)
                 => pending_lock = Some(w)]_vars
    /\ [](\A w \in Workers :
             /\ pending_lock = Some(w) => pc[w] = "remove"
             /\ pc[w] = "remove" => pending_lock = Some(w)
             /\ (\A v \in Workers : pc[v] # "remove") => pending_lock = None)

C12_Witness ==
    \E w, v \in Workers :
        /\ pc[w] = "run"
        /\ pc[v] = "remove" /\ pending_lock = Some(v)
        /\ Count(pending_ids, Val(job_id[v])) = 1

\* ------------------------------------------------------------------ C13

\* Some worker is past its removal in the call for job j.
Executing(j) ==
    \E w \in Workers : InCall(w, j) /\ pc[w] \notin {"get", "lock", "remove"}

\* C13 as stated: a job id is never a member of the pending set while a
\* worker is executing that job or after the job has been processed.
C13_PendingMeansUnclaimed ==
    \A j \in Jobs : (Executing(j) \/ Ended(j)) => Count(pending_ids, j) = 0

\* C13 amended: the worker's removal leaves the id out of the pending set,
\* and the id stays out while the job is executed and after it, unless the
\* producer's insert comes after the worker's removal: a job id is a
\* member, during or after its execution, only from the producer's late
\* insert on, and at most once.
C13_PendingUnlessInsertedLate ==
    /\ [][\A w \in Workers :
             (pc[w] = "remove" /\ pc'[w] # "remove")
                 => Count(pending_ids', Val(job_id[w])) = 0]_vars
    /\ [][\A j \in Jobs :
             ((Executing(j) \/ Ended(j))
                 /\ Count(pending_ids', j) # Count(pending_ids, j))
                 => /\ j \in registering /\ j \notin registering'
                    /\ Count(pending_ids, j) = 0]_vars
    /\ [](\A j \in Jobs :
             /\ Count(pending_ids, j) <= 1
             /\ ((Executing(j) \/ Ended(j)) /\ j \in registering)
                    => Count(pending_ids, j) = 0)

C13_Witness ==
    \E j \in Jobs :
        /\ Ended(j) /\ j \notin registering
        /\ Count(pending_ids, j) = 1
        /\ \E i \in Jobs : i # j /\ Ended(i) /\ Count(pending_ids, i) = 0

\* ------------------------------------------------------------------ C14

\* The items of the Shared Queue that carry job j.
Queued(j) == {i \in DOMAIN job_queue : job_queue[i][1] = j}

\* The workers in the call for job j.
Holders(j) == {w \in Workers : InCall(w, j)}

\* C14: an enqueued job is at every moment in exactly one place: once in the
\* queue, or in the call of exactly one worker, or processed; so at most one
\* worker executes it at any time, it is dequeued exactly once, and the
\* routine is invoked at most once for it, exactly once by the time the call
\* has passed line 36. A job that was not enqueued is nowhere.
C14_DequeuedAndRunExactlyOnce ==
    \A j \in Jobs :
        /\ Cardinality(Holders(j)) <= 1
        /\ Cardinality(Queued(j)) + Cardinality(Holders(j))
               + (IF Ended(j) THEN 1 ELSE 0)
             = (IF j \in DOMAIN submitted THEN 1 ELSE 0)
        /\ Count(run_calls, j) =
               (IF Ended(j) \/ \E w \in Holders(j) : Executing(j) /\ pc[w] # "run"
                THEN 1 ELSE 0)

C14_Witness ==
    \E w, v \in Workers : \E i, j \in Jobs :
        /\ w # v /\ i # j
        /\ InCall(w, i) /\ pc[w] = "notify"
        /\ InCall(v, j) /\ pc[v] = "run"
        /\ job_queue = <<>>
        /\ run_calls = <<i>>

\* ======================================================= the cleanup loop

MaxTicks == 4
MaxScript == 3

\* _FakeStore.cleanup_returns holds removal counts and exceptions.
Returns(n) == [kind |-> "return", count |-> n, message |-> ""]
Raises(m) == [kind |-> "raise", count |-> 0, message |-> m]

\* str(exc) of the failures of the sweep, of sleep_fn and of get_stats
SweepFailure == "sweep failed"
SleepFailure == "sleep failed"
StatsFailure == "stats failed"
Cancelled == "CancelledError"

ScriptItems == {Returns(0), Returns(3), Raises(SweepFailure)}

Scripts == UNION {[1..n -> ScriptItems] : n \in 1..MaxScript}

\* The scenario of the specification: 0, then 3, then RuntimeError.
ScenarioScript == <<Returns(0), Returns(3), Raises(SweepFailure)>>

Min(a, b) == IF a < b THEN a ELSE b

\* _FakeStore.cleanup_old_jobs: the entry for this call, the last entry
\* once the script is used up.
CleanupResult(returns, count) == returns[Min(count, Len(returns) - 1) + 1]

\* _FakeStore.stats as it appears in the message
Stats == "{'total': 0}"

\* "[API Server] Cleaned up {removed} old jobs. Current stats: {stats}"
CleanedMessage(n, stats) == [kind |-> "cleaned", removed |-> n, detail |-> stats]

\* "[API Server] Job cleanup error: {exc}"
ErrorMessage(m) == [kind |-> "error", removed |-> 0, detail |-> m]

notLoopVars == <<workerVars, downloadVars, pathVars, uploadVars, readerVars>>

CleanupInit ==
    /\ WorkersIdle
    /\ DownloadOff
    /\ PathOff
    /\ UploadOff
    /\ ReaderOff
    /\ store = << >>
    /\ loop_pc = "sleep"
    /\ cleanup_returns \in Scripts
    /\ cleanup_call_count = 0
    /\ get_stats_calls = 0
    /\ removed = None
    /\ loop_exc = None
    /\ log = <<>>
    /\ raised = <<>>
    /\ ticks = 0
    /\ cancel_requested = FALSE

\* The owner of the task cancels it.
Cancel ==
    /\ loop_pc \notin {"off", "done"}
    /\ ~cancel_requested
    /\ cancel_requested' = TRUE
    /\ UNCHANGED <<notLoopVars, loop_pc, cleanup_returns, cleanup_call_count,
                   get_stats_calls, removed, loop_exc, log, raised, ticks>>

\* await sleep_fn(cleanup_interval_seconds) returns
SleepReturns ==
    /\ loop_pc = "sleep"
    /\ ~cancel_requested
    /\ ticks < MaxTicks
    /\ ticks' = ticks + 1
    /\ loop_pc' = "cleanup"
    /\ UNCHANGED <<notLoopVars, cleanup_returns, cleanup_call_count,
                   get_stats_calls, removed, loop_exc, log, raised,
                   cancel_requested>>

\* await sleep_fn(cleanup_interval_seconds) raises an Exception
SleepRaises ==
    /\ loop_pc = "sleep"
    /\ ~cancel_requested
    /\ ticks < MaxTicks
    /\ ticks' = ticks + 1
    /\ loop_exc' = Some(SleepFailure)
    /\ raised' = Append(raised, "sleep")
    /\ loop_pc' = "handler"
    /\ UNCHANGED <<notLoopVars, cleanup_returns, cleanup_call_count,
                   get_stats_calls, removed, log, cancel_requested>>

\* Lines 75-78 with asyncio.CancelledError caught by "except Exception".
SleepCancelled_Swallowed ==
    /\ loop_pc = "sleep"
    /\ cancel_requested
    /\ ticks' = ticks + 1
    /\ cancel_requested' = FALSE
    /\ loop_exc' = Some(Cancelled)
    /\ loop_pc' = "handler"
    /\ UNCHANGED <<notLoopVars, cleanup_returns, cleanup_call_count,
                   get_stats_calls, removed, log, raised>>

\* The pending cancellation is raised in the sleep: except
\* asyncio.CancelledError: break
SleepCancelled ==
    /\ loop_pc = "sleep"
    /\ cancel_requested
    /\ ticks' = ticks + 1
    /\ cancel_requested' = FALSE
    /\ loop_exc' = Some(Cancelled)
    /\ loop_pc' = "done"
    /\ UNCHANGED <<notLoopVars, cleanup_returns, cleanup_call_count,
                   get_stats_calls, removed, log, raised>>

\* Lines 71-72 with the test "removed > 0" replaced by "removed >= 0".
CleanupOldJobs_AlwaysStats ==
    /\ loop_pc = "cleanup"
    /\ cleanup_call_count' = cleanup_call_count + 1
    /\ LET result == CleanupResult(cleanup_returns, cleanup_call_count)
       IN IF result.kind = "raise"
          THEN /\ loop_exc' = Some(result.message)
               /\ raised' = Append(raised, "cleanup")
               /\ loop_pc' = "handler"
               /\ removed' = removed
          ELSE /\ removed' = Some(result.count)
               /\ loop_pc' = IF result.count >= 0 THEN "stats" ELSE "sleep"
               /\ UNCHANGED <<loop_exc, raised>>
    /\ UNCHANGED <<notLoopVars, cleanup_returns, get_stats_calls, log, ticks,
                   cancel_requested>>

\* removed = store.cleanup_old_jobs(); if removed > 0:
CleanupOldJobs ==
    /\ loop_pc = "cleanup"
    /\ cleanup_call_count' = cleanup_call_count + 1
    /\ LET result == CleanupResult(cleanup_returns, cleanup_call_count)
       IN IF result.kind = "raise"
          THEN /\ loop_exc' = Some(result.message)
               /\ raised' = Append(raised, "cleanup")
               /\ loop_pc' = "handler"
               /\ removed' = removed
          ELSE /\ removed' = Some(result.count)
               /\ loop_pc' = IF result.count > 0 THEN "stats" ELSE "sleep"
               /\ UNCHANGED <<loop_exc, raised>>
    /\ UNCHANGED <<notLoopVars, cleanup_returns, get_stats_calls, log, ticks,
                   cancel_requested>>

\* stats = store.get_stats()
GetStats ==
    /\ loop_pc = "stats"
    /\ get_stats_calls' = get_stats_calls + 1
    /\ loop_pc' = "log"
    /\ UNCHANGED <<notLoopVars, cleanup_returns, cleanup_call_count, removed,
                   loop_exc, log, raised, ticks, cancel_requested>>

\* store.get_stats() raises an Exception
GetStatsRaises ==
    /\ loop_pc = "stats"
    /\ get_stats_calls' = get_stats_calls + 1
    /\ loop_exc' = Some(StatsFailure)
    /\ raised' = Append(raised, "stats")
    /\ loop_pc' = "handler"
    /\ UNCHANGED <<notLoopVars, cleanup_returns, cleanup_call_count, removed,
                   log, ticks, cancel_requested>>

\* log_fn(f"... Cleaned up {removed} old jobs. Current stats: {stats}")
LogStats ==
    /\ loop_pc = "log"
    /\ log' = Append(log, CleanedMessage(Val(removed), Stats))
    /\ loop_pc' = "sleep"
    /\ UNCHANGED <<notLoopVars, cleanup_returns, cleanup_call_count,
                   get_stats_calls, removed, loop_exc, raised, ticks,
                   cancel_requested>>

\* Lines 77-78 followed by a break.
LogError_Stops ==
    /\ loop_pc = "handler"
    /\ log' = Append(log, ErrorMessage(Val(loop_exc)))
    /\ loop_pc' = "done"
    /\ UNCHANGED <<notLoopVars, cleanup_returns, cleanup_call_count,
                   get_stats_calls, removed, loop_exc, raised, ticks,
                   cancel_requested>>

\* except Exception as exc: log_fn(f"... Job cleanup error: {exc}")
LogError ==
    /\ loop_pc = "handler"
    /\ log' = Append(log, ErrorMessage(Val(loop_exc)))
    /\ loop_pc' = "sleep"
    /\ UNCHANGED <<notLoopVars, cleanup_returns, cleanup_call_count,
                   get_stats_calls, removed, loop_exc, raised, ticks,
                   cancel_requested>>

\* One step of run_job_store_cleanup_loop.
LoopStep ==
    \/ SleepReturns
    \/ SleepRaises
    \/ SleepCancelled
    \/ CleanupOldJobs
    \/ GetStats
    \/ GetStatsRaises
    \/ LogStats
    \/ LogError

CleanupNext ==
    \/ LoopStep
    \/ Cancel

CleanupSpec == CleanupInit /\ [][CleanupNext]_vars

\* The event loop keeps running the task while it can take a step.
CleanupLiveSpec == CleanupSpec /\ WF_vars(LoopStep)

\* ------------------------------------------------------------------ C15

IsError(entry) == entry.kind = "error"

IsCleaned(entry) == entry.kind = "cleaned"

ErrorLogs == SelectSeq(log, IsError)

CleanedLogs == SelectSeq(log, IsCleaned)

\* C15: every Exception raised by the sleep, by cleanup_old_jobs or by
\* get_stats is caught, logged with its message, and followed by the sleep of
\* a further iteration; the loop is over only after the cancellation was
\* raised in it.
C15_FailedSweepNeverEndsLoop ==
    /\ [][/\ Len(raised') > Len(raised)
             => /\ loop_pc' = "handler"
                /\ loop_exc' \in {Some(SleepFailure), Some(SweepFailure),
                                  Some(StatsFailure)}
          /\ (loop_pc = "handler" /\ loop_pc' # "handler")
             => /\ loop_pc' = "sleep"
                /\ log' = Append(log, ErrorMessage(Val(loop_exc)))]_vars
    /\ [](/\ Len(ErrorLogs) + (IF loop_pc = "handler" THEN 1 ELSE 0) = Len(raised)
          /\ loop_pc = "done" => loop_exc = Some(Cancelled))

C15_Witness ==
    /\ \A source \in {"sleep", "cleanup", "stats"} : Count(raised, source) = 1
    /\ Len(ErrorLogs) = 3
    /\ loop_pc = "cleanup"

\* ------------------------------------------------------------------ C16

sweepVars == <<cleanup_call_count, get_stats_calls, log, raised>>

\* C16: a sleep entered with a cancellation pending ends the loop at once,
\* without an eviction call, a statistics call or a log, and not through the
\* handler of Exception; the ended loop does nothing more; and a loop whose
\* cancellation was requested eventually ends.
C16_CancellationEndsLoop ==
    /\ [][/\ (loop_pc = "sleep" /\ cancel_requested /\ loop_pc' # "sleep")
             => /\ loop_pc' = "done"
                /\ loop_exc' = Some(Cancelled)
                /\ sweepVars' = sweepVars
          /\ loop_pc = "done"
             => /\ loop_pc' = "done"
                /\ sweepVars' = sweepVars]_vars
    /\ [](loop_exc = Some(Cancelled) => loop_pc = "done")
    /\ (cancel_requested ~> loop_pc = "done")

C16_Witness ==
    /\ loop_pc = "done"
    /\ cleanup_call_count = 2
    /\ Len(CleanedLogs) = 1 /\ Len(ErrorLogs) = 1

\* ------------------------------------------------------------------ C17

\* cleanup_old_jobs returned a positive count in its call number i (from 0).
PositiveSweep(i) ==
    LET result == CleanupResult(cleanup_returns, i)
    IN result.kind = "return" /\ result.count > 0

PositiveSweeps == {i \in 0..(cleanup_call_count - 1) : PositiveSweep(i)}

\* The three ticks of the scenario are over: the store answered 0, 3 and
\* RuntimeError, nothing else failed, and the handler has run.
AfterScenario ==
    /\ cleanup_returns = ScenarioScript
    /\ cleanup_call_count = 3
    /\ raised = <<"cleanup">>
    /\ loop_pc # "handler"

\* C17 as stated: statistics are fetched and then logged exactly when the
\* sweep returned a positive count, and in the scenario the loop has logged
\* once, on the tick that returned 3.
C17_StatsIffPositiveAndLogsOnce ==
    /\ [][/\ (loop_pc = "cleanup" /\ loop_pc' # "cleanup")
             => (loop_pc' = "stats" <=> PositiveSweep(cleanup_call_count))
          /\ (loop_pc = "stats" /\ loop_pc' # "stats" /\ raised' = raised)
             => loop_pc' = "log"]_vars
    /\ [](AfterScenario => log = <<CleanedMessage(3, Stats)>>)

\* C17 amended: get_stats is called exactly when the sweep returned a
\* positive count, and its result is logged with that count unless get_stats
\* itself raises; in the scenario log_fn is called twice, with the statistics
\* on the tick that returned 3 and with the cleanup error on the third tick,
\* get_stats is called once, and the loop has not ended unless cancelled.
C17_StatsIffPositiveErrorLogged ==
    /\ [][/\ (loop_pc = "cleanup" /\ loop_pc' # "cleanup")
             => (loop_pc' = "stats" <=> PositiveSweep(cleanup_call_count))
          /\ (loop_pc = "stats" /\ loop_pc' # "stats")
             => /\ get_stats_calls' = get_stats_calls + 1
                /\ loop_pc' \in {"log", "handler"}
                /\ loop_pc' = "handler" => loop_exc' = Some(StatsFailure)
          /\ (loop_pc = "log" /\ loop_pc' # "log")
             => /\ log' = Append(log, CleanedMessage(Val(removed), Stats))
                /\ Val(removed) > 0]_vars
    /\ [](/\ get_stats_calls + (IF loop_pc = "stats" THEN 1 ELSE 0)
                = Cardinality(PositiveSweeps)
          /\ Len(CleanedLogs) + Count(raised, "stats")
                + (IF loop_pc = "log" THEN 1 ELSE 0) = get_stats_calls
          /\ AfterScenario
                => /\ log = <<CleanedMessage(3, Stats), ErrorMessage(SweepFailure)>>
                   /\ get_stats_calls = 1
                   /\ loop_pc = "done" => loop_exc = Some(Cancelled))

C17_Witness ==
    /\ AfterScenario
    /\ loop_pc = "cleanup" /\ ticks = 4
    /\ log = <<CleanedMessage(3, Stats), ErrorMessage(SweepFailure)>>

\* ================================================ ensure_model_downloaded

DEFAULT_REPO_ID == "ACE-Step/Ace-Step1.5"

\* A model of the unified repository, a model with a repository of its own,
\* and a name MODEL_REPO_MAPPING does not know.
ModelNames == {"acestep-v15-turbo", "acestep-v15-base", "my-model"}

\* MODEL_REPO_MAPPING.get(model_name, DEFAULT_REPO_ID)
RepoOf(model_name) ==
    CASE model_name = "acestep-v15-turbo" -> "ACE-Step/Ace-Step1.5"
      [] model_name = "acestep-v15-base" -> "ACE-Step/acestep-v15-base"
      [] OTHER -> DEFAULT_REPO_ID

\* A path is the sequence of its components; os.path.join(path, name)
Join(path, name) == Append(path, name)

CheckpointDir == <<"checkpoints">>

\* The target is absent, or a directory with these entries.
LocalStates == {None, Some(<<>>), Some(<<"weights.safetensors">>)}

\* os.path.exists(model_path)
Exists(local) == local # None

\* os.listdir(model_path)
Listdir(local) == Val(local)

\* Values of ACESTEP_DOWNLOAD_SOURCE; "" is what an unset variable reads as.
EnvValues == {"", "huggingface", "HuggingFace", "modelscope", "MODELSCOPE", "auto"}

\* Line 107 without .lower()
Lower_Identity(text) == text

\* str.lower() on these values
Lower(text) ==
    CASE text = "HuggingFace" -> "huggingface"
      [] text = "MODELSCOPE" -> "modelscope"
      [] OTHER -> text

\* How the snapshot_download of each library behaves: it returns, raises
\* an Exception, or (modelscope) raises TypeError for local_dir and then
\* returns or raises for cache_dir.
HfBehaviours == {"ok", "fail"}
MsBehaviours == {"ok", "fail", "retry_ok", "retry_fail"}

HfDown == "hf down"
MsDown == "ms down"

DownloadEnvs ==
    [model_name : ModelNames, local : LocalStates, source : EnvValues,
     google : BOOLEAN, hf : HfBehaviours, ms : MsBehaviours]

\* is_unified_repo ... download_dir
DownloadDir(repo_id, local_dir, model_name) ==
    IF repo_id = DEFAULT_REPO_ID \/ repo_id = "ACE-Step/Ace-Step1.5"
    THEN local_dir
    ELSE Join(local_dir, model_name)

SnapshotCall(library, keyword, dir) ==
    [library |-> library, keyword |-> keyword, dir |-> dir]

Returned(path, calls) ==
    [outcome |-> "returned", path |-> Some(path), error |-> None, calls |-> calls]

Raised(message, calls) ==
    [outcome |-> "raised", path |-> None, error |-> Some(message), calls |-> calls]

\* download_from_huggingface(repo_id, local_dir, model_name)
DownloadFromHuggingface(env, repo_id, local_dir, model_name) ==
    LET call == SnapshotCall("huggingface_hub", "local_dir",
                             DownloadDir(repo_id, local_dir, model_name))
    IN IF env.hf = "ok"
       THEN Returned(Join(local_dir, model_name), <<call>>)
       ELSE Raised(HfDown, <<call>>)

\* download_from_modelscope(repo_id, local_dir, model_name)
DownloadFromModelscope(env, repo_id, local_dir, model_name) ==
    LET dir == DownloadDir(repo_id, local_dir, model_name)
        first == SnapshotCall("modelscope", "local_dir", dir)
        second == SnapshotCall("modelscope", "cache_dir", dir)
    IN CASE env.ms = "ok" -> Returned(Join(local_dir, model_name), <<first>>)
         [] env.ms = "fail" -> Raised(MsDown, <<first>>)
         [] env.ms = "retry_ok" ->
                Returned(Join(local_dir, model_name), <<first, second>>)
         [] env.ms = "retry_fail" -> Raised(MsDown, <<first, second>>)

DownloadFrom(source, env, repo_id, local_dir, model_name) ==
    IF source = "huggingface"
    THEN DownloadFromHuggingface(env, repo_id, local_dir, model_name)
    ELSE DownloadFromModelscope(env, repo_id, local_dir, model_name)

\* Line 100 with the os.listdir test left out.
IsPresent_ExistsOnly(local) == Exists(local)

\* os.path.exists(model_path) and os.listdir(model_path)
IsPresent(local) == Exists(local) /\ Listdir(local) # <<>>

\* The source tried first (lines 118, 127).
FirstSource(use) == IF use THEN "huggingface" ELSE "modelscope"

\* Lines 125 and 133 calling the source that has just failed.
FallbackOf_Same(source) == source

\* The source of the except blocks (lines 125, 133).
FallbackOf(source) ==
    IF source = "huggingface" THEN "modelscope" ELSE "huggingface"

Attempt(source, result) ==
    [source |-> source, outcome |-> result.outcome, error |-> result.error]

notDownloadVars == <<workerVars, loopVars, pathVars, uploadVars, readerVars>>

DownloadInit ==
    /\ WorkersIdle
    /\ store = << >>
    /\ LoopOff
    /\ PathOff
    /\ UploadOff
    /\ ReaderOff
    /\ dl_env \in DownloadEnvs
    /\ dl_pc = "check"
    /\ use_huggingface = None
    /\ probes = 0
    /\ attempts = <<>>
    /\ snapshot_calls = <<>>
    /\ dl_result = None
    /\ dl_error = None

\* model_path = os.path.join(checkpoint_dir, model_name)
ModelPath == Join(CheckpointDir, dl_env.model_name)

\* Lines 98-102: return model_path when the model is there.
CheckLocal ==
    /\ dl_pc = "check"
    /\ IF IsPresent(dl_env.local)
       THEN /\ dl_result' = Some(ModelPath)
            /\ dl_pc' = "done"
       ELSE /\ dl_result' = dl_result
            /\ dl_pc' = "choose"
    /\ UNCHANGED <<notDownloadVars, dl_env, use_huggingface, probes, attempts,
                   snapshot_calls, dl_error>>

\* Lines 107-116: the preference of the environment, else the probe.
ChooseSource ==
    /\ dl_pc = "choose"
    /\ LET prefer_source == Lower(dl_env.source)
       IN IF prefer_source = "huggingface"
          THEN use_huggingface' = Some(TRUE) /\ probes' = probes
          ELSE IF prefer_source = "modelscope"
          THEN use_huggingface' = Some(FALSE) /\ probes' = probes
          ELSE use_huggingface' = Some(dl_env.google) /\ probes' = probes + 1
    /\ dl_pc' = "first"
    /\ UNCHANGED <<notDownloadVars, dl_env, attempts, snapshot_calls, dl_result,
                   dl_error>>

\* Lines 118-122 and 127-130: the first source; its path is returned, or its
\* Exception is caught.
FirstAttempt ==
    /\ dl_pc = "first"
    /\ LET source == FirstSource(Val(use_huggingface))
           result == DownloadFrom(source, dl_env, RepoOf(dl_env.model_name),
                                  CheckpointDir, dl_env.model_name)
       IN /\ attempts' = Append(attempts, Attempt(source, result))
          /\ snapshot_calls' = snapshot_calls \o result.calls
          /\ IF result.outcome = "returned"
             THEN /\ dl_result' = result.path
                  /\ dl_pc' = "done"
             ELSE /\ dl_result' = dl_result
                  /\ dl_pc' = "fallback"
    /\ UNCHANGED <<notDownloadVars, dl_env, use_huggingface, probes, dl_error>>

\* Lines 123-125 and 131-133: the other source; its path is returned, or its
\* Exception leaves ensure_model_downloaded.
Fallback ==
    /\ dl_pc = "fallback"
    /\ LET source == FallbackOf(FirstSource(Val(use_huggingface)))
           result == DownloadFrom(source, dl_env, RepoOf(dl_env.model_name),
                                  CheckpointDir, dl_env.model_name)
       IN /\ attempts' = Append(attempts, Attempt(source, result))
          /\ snapshot_calls' = snapshot_calls \o result.calls
          /\ dl_result' = result.path
          /\ dl_error' = result.error
    /\ dl_pc' = "done"
    /\ UNCHANGED <<notDownloadVars, dl_env, use_huggingface, probes>>

DownloadNext ==
    \/ CheckLocal
    \/ ChooseSource
    \/ FirstAttempt
    \/ Fallback

DownloadSpec == DownloadInit /\ [][DownloadNext]_vars

\* ------------------------------------------------------------------ C18

\* checkpoint_dir/model_name is a directory with at least one entry.
NonEmptyDirectory == dl_env.local \notin {None, Some(<<>>)}

\* The model is not present locally and the call is over.
DownloadOver == dl_pc = "done" /\ ~NonEmptyDirectory

\* C18: when the model is not present locally, the first-chosen source is
\* called exactly once; the other source is called, once, only after the
\* first one raised, and then its path is what the call returns or its
\* error is what the call raises; no source is called twice.
C18_FallbackOnceAfterFirstFails ==
    /\ Len(attempts) <= 2
    /\ \A i, k \in DOMAIN attempts : attempts[i].source = attempts[k].source => i = k
    /\ attempts # <<>> => attempts[1].source = FirstSource(Val(use_huggingface))
    /\ Len(attempts) = 2 => attempts[1].outcome = "raised"
    /\ DownloadOver =>
          /\ attempts # <<>>
          /\ attempts[1].outcome = "returned" =>
                 /\ Len(attempts) = 1
                 /\ dl_result = Some(ModelPath) /\ dl_error = None
          /\ attempts[1].outcome = "raised" =>
                 /\ Len(attempts) = 2
                 /\ attempts[2].outcome = "returned" =>
                        dl_result = Some(ModelPath) /\ dl_error = None
                 /\ attempts[2].outcome = "raised" =>
                        dl_result = None /\ dl_error = attempts[2].error

C18_Witness ==
    /\ DownloadOver
    /\ Len(attempts) = 2
    /\ attempts[1].source = "modelscope" /\ attempts[1].error = Some(MsDown)
    /\ attempts[2].source = "huggingface" /\ dl_error = Some(HfDown)

\* ------------------------------------------------------------------ C19

\* C19: when the target directory exists and is not empty the call returns
\* its path without a probe of the network and without a call of either
\* source; when it exists and is empty, or does not exist, the call goes on
\* to a source.
C19_PresentModelSkipsDownload ==
    /\ NonEmptyDirectory =>
          /\ probes = 0 /\ attempts = <<>> /\ snapshot_calls = <<>>
          /\ dl_pc \in {"check", "done"}
          /\ dl_pc = "done" => dl_result = Some(ModelPath) /\ dl_error = None
    /\ (dl_pc = "done" /\ ~NonEmptyDirectory) =>
          /\ attempts # <<>>
          /\ Lower(dl_env.source) \notin {"huggingface", "modelscope"} => probes = 1

C19_Witness ==
    /\ dl_pc = "done"
    /\ dl_env.local = Some(<<"weights.safetensors">>)
    /\ dl_env.source = ""
    /\ dl_result = Some(ModelPath)
    /\ probes = 0 /\ attempts = <<>>

\* ==================================================== validate_audio_path

MaxSegs == 3

\* A path string is its components between separators and whether it starts
\* with a separator; the empty string has no components.
Components == {"..", ".", "tmp", "a", "x.wav"}

PathOf(abs, segs) == [abs |-> abs, segs |-> segs]

Paths ==
    {PathOf(abs, segs) :
        abs \in BOOLEAN, segs \in UNION {[1..n -> Components] : n \in 0..MaxSegs}}

\* The working directory of the process: outside the temporary directory, or
\* inside it.
WorkingDirs == {<<"srv">>, <<"tmp", "a">>}

\* os.path.realpath(tempfile.gettempdir())
SystemTemp == PathOf(TRUE, <<"tmp">>)

\* One component of os.path.normpath: "." is dropped, ".." removes the
\* component before it, is dropped at the root and is kept at the start of
\* a relative path.
NormStep(abs, done, seg) ==
    IF seg = "." THEN done
    ELSE IF seg # ".." THEN Append(done, seg)
    ELSE IF done # <<>> /\ done[Len(done)] # ".." THEN SubSeq(done, 1, Len(done) - 1)
    ELSE IF abs THEN done
    ELSE Append(done, seg)

RECURSIVE NormFrom(_, _, _)
NormFrom(abs, done, segs) ==
    IF segs = <<>> THEN done
    ELSE NormFrom(abs, NormStep(abs, done, Head(segs)), Tail(segs))

\* os.path.normpath(path)
NormPath(path) == PathOf(path.abs, NormFrom(path.abs, <<>>, path.segs))

\* os.path.realpath(path) in a file system without symbolic links
RealPath(path, cwd) ==
    IF path.abs THEN NormPath(path)
    ELSE NormPath(PathOf(TRUE, cwd \o path.segs))

\* os.path.commonpath of two absolute paths
RECURSIVE CommonSegs(_, _)
CommonSegs(a, b) ==
    IF a = <<>> \/ b = <<>> \/ Head(a) # Head(b) THEN <<>>
    ELSE <<Head(a)>> \o CommonSegs(Tail(a), Tail(b))

CommonPath(a, b) == PathOf(TRUE, CommonSegs(a.segs, b.segs))

\* normalized.split(os.sep) of a relative path: "." is the normal form of
\* a path without components.
SplitSep(path) == IF path.segs = <<>> THEN <<".">> ELSE path.segs

HasSeg(segs, seg) == \E i \in DOMAIN segs : segs[i] = seg

AbsoluteNotAllowed == "absolute audio file paths are not allowed"
TraversalNotAllowed == "path traversal in audio file paths is not allowed"

ReturnsNone == [kind |-> "none", path |-> None, detail |-> ""]
ReturnsPath(path) == [kind |-> "accepted", path |-> Some(path), detail |-> ""]
HTTPException(detail) == [kind |-> "rejected", path |-> None, detail |-> detail]

\* validate_audio_path(path) in working directory cwd
ValidateAudioPath(path, cwd) ==
    IF path = PathOf(FALSE, <<>>) THEN ReturnsNone
    ELSE LET requested_path == RealPath(path, cwd)
             is_in_temp == CommonPath(SystemTemp, requested_path) = SystemTemp
             normalized == NormPath(path)
         IN IF is_in_temp THEN ReturnsPath(requested_path)
            ELSE IF path.abs THEN HTTPException(AbsoluteNotAllowed)
            ELSE IF HasSeg(SplitSep(normalized), "..")
                 THEN HTTPException(TraversalNotAllowed)
            ELSE ReturnsPath(path)

PathInit ==
    /\ WorkersIdle
    /\ store = << >>
    /\ LoopOff
    /\ DownloadOff
    /\ UploadOff
    /\ ReaderOff
    /\ va_in \in [path : Paths, cwd : WorkingDirs]
    /\ va_pc = "call"
    /\ va_out = << >>

Validate ==
    /\ va_pc = "call"
    /\ va_out' = ValidateAudioPath(va_in.path, va_in.cwd)
    /\ va_pc' = "done"
    /\ UNCHANGED <<workerVars, loopVars, downloadVars, uploadVars, readerVars,
                   va_in>>

PathNext == Validate

PathSpec == PathInit /\ [][PathNext]_vars

\* ------------------------------------------------------------------ C20

\* The file the path names, from the working directory, is the temporary
\* directory or lies under it.
InsideTemp(path, cwd) ==
    LET location == RealPath(path, cwd)
    IN location.segs # <<>> /\ Head(location.segs) = Head(SystemTemp.segs)

\* A non-absolute path without a ".." component.
PlainRelative(path) == ~path.abs /\ ~HasSeg(path.segs, "..")

\* A relative path of one component that names a file of the working
\* directory, such as clip.wav.
SameDirectory(path) ==
    ~path.abs /\ Len(path.segs) = 1 /\ Head(path.segs) \notin {".", ".."}

\* C20: a non-empty path is accepted only if it lies inside the temporary
\* directory or is a non-absolute path without ".." components, and every
\* other path is rejected; ../x.wav is rejected, an absolute path outside
\* the temporary directory is rejected, and an accepted same-directory
\* relative path is returned unchanged.
C20_AcceptsOnlyTempOrPlainRelative ==
    (va_pc = "done" /\ va_in.path # PathOf(FALSE, <<>>)) =>
        LET path == va_in.path
            cwd == va_in.cwd
        IN /\ va_out.kind \in {"accepted", "rejected"}
           /\ va_out.kind = "accepted" =>
                  (InsideTemp(path, cwd) \/ PlainRelative(path))
           /\ path = PathOf(FALSE, <<"..", "x.wav">>) => va_out.kind = "rejected"
           /\ (path.abs /\ ~InsideTemp(path, cwd)) => va_out.kind = "rejected"
           /\ (SameDirectory(path) /\ va_out.kind = "accepted") =>
                  va_out.path = Some(path)

\* ==================================================== save_upload_to_temp

MaxChunks == 2

\* The call that raises, if any: tempfile.mkstemp, os.close(fd), open(path),
\* a call of upload.read or a call of file_obj.write.
FailPoints == {"none", "mkstemp", "os.close", "open", "read", "write"}

\* The upload has `chunks` non-empty chunks; the call number `at` of the
\* failing read or write raises; os.remove and upload.close may raise too.
UploadEnvs ==
    [chunks : 0..MaxChunks, fail : FailPoints, at : 1..(MaxChunks + 1),
     remove_fails : BOOLEAN, close_fails : BOOLEAN]

\* str(exc) of the failure raised at a fail point
FailureAt(point) == point \o " failed"

\* The path tempfile.mkstemp returned
TempPath == "tmp/ref_audio_x.wav"

UploadReturned(path) == [kind |-> "returned", path |-> Some(path), error |-> None]

UploadRaised(error) == [kind |-> "raised", path |-> None, error |-> error]

notUploadVars == <<workerVars, loopVars, downloadVars, pathVars, readerVars>>

UploadInit ==
    /\ WorkersIdle
    /\ store = << >>
    /\ LoopOff
    /\ DownloadOff
    /\ PathOff
    /\ ReaderOff
    /\ up_env \in UploadEnvs
    /\ up_pc = "mkstemp"
    /\ up_file = None
    /\ up_reads = 0
    /\ up_remove_calls = 0
    /\ up_close_calls = 0
    /\ up_exc = None
    /\ up_out = << >>

\* fd, path = tempfile.mkstemp(...): before the try, its failure leaves the
\* call at once.
Mkstemp ==
    /\ up_pc = "mkstemp"
    /\ IF up_env.fail = "mkstemp"
       THEN /\ up_exc' = Some(FailureAt("mkstemp"))
            /\ up_out' = UploadRaised(Some(FailureAt("mkstemp")))
            /\ up_pc' = "done"
            /\ up_file' = up_file
       ELSE /\ up_file' = Some(0)
            /\ up_pc' = "close_fd"
            /\ UNCHANGED <<up_exc, up_out>>
    /\ UNCHANGED <<notUploadVars, up_env, up_reads, up_remove_calls, up_close_calls>>

\* os.close(fd): before the try, its failure leaves the call at once.
CloseFd ==
    /\ up_pc = "close_fd"
    /\ IF up_env.fail = "os.close"
       THEN /\ up_exc' = Some(FailureAt("os.close"))
            /\ up_out' = UploadRaised(Some(FailureAt("os.close")))
            /\ up_pc' = "done"
       ELSE /\ up_pc' = "open"
            /\ UNCHANGED <<up_exc, up_out>>
    /\ UNCHANGED <<notUploadVars, up_env, up_file, up_reads, up_remove_calls,
                   up_close_calls>>

\* with open(path, "wb") as file_obj:
OpenFile ==
    /\ up_pc = "open"
    /\ IF up_env.fail = "open"
       THEN up_exc' = Some(FailureAt("open")) /\ up_pc' = "handler"
       ELSE up_exc' = up_exc /\ up_pc' = "read"
    /\ UNCHANGED <<notUploadVars, up_env, up_file, up_reads, up_remove_calls,
                   up_close_calls, up_out>>

\* chunk = await upload.read(1024 * 1024); if not chunk: break
ReadChunk ==
    /\ up_pc = "read"
    /\ up_reads' = up_reads + 1
    /\ IF up_env.fail = "read" /\ up_env.at = up_reads + 1
       THEN up_exc' = Some(FailureAt("read")) /\ up_pc' = "handler"
       ELSE /\ up_exc' = up_exc
            /\ up_pc' = IF up_reads + 1 > up_env.chunks THEN "finally" ELSE "write"
    /\ UNCHANGED <<notUploadVars, up_env, up_file, up_remove_calls, up_close_calls,
                   up_out>>

\* file_obj.write(chunk)
WriteChunk ==
    /\ up_pc = "write"
    /\ IF up_env.fail = "write" /\ up_env.at = up_reads
       THEN /\ up_exc' = Some(FailureAt("write"))
            /\ up_pc' = "handler"
            /\ up_file' = up_file
       ELSE /\ up_file' = Some(Val(up_file) + 1)
            /\ up_pc' = "read"
            /\ up_exc' = up_exc
    /\ UNCHANGED <<notUploadVars, up_env, up_reads, up_remove_calls, up_close_calls,
                   up_out>>

\* except Exception: try: os.remove(path) except Exception: pass; raise
RemovePartial ==
    /\ up_pc = "handler"
    /\ up_remove_calls' = up_remove_calls + 1
    /\ up_file' = IF up_env.remove_fails THEN up_file ELSE None
    /\ up_pc' = "finally"
    /\ UNCHANGED <<notUploadVars, up_env, up_reads, up_close_calls, up_exc, up_out>>

\* finally: try: await upload.close() except Exception: pass; then
\* return path, or the exception goes on.
CloseUpload ==
    /\ up_pc = "finally"
    /\ up_close_calls' = up_close_calls + 1
    /\ up_out' = IF up_exc = None THEN UploadReturned(TempPath)
                 ELSE UploadRaised(up_exc)
    /\ up_pc' = "done"
    /\ UNCHANGED <<notUploadVars, up_env, up_file, up_reads, up_remove_calls, up_exc>>

UploadNext ==
    \/ Mkstemp
    \/ CloseFd
    \/ OpenFile
    \/ ReadChunk
    \/ WriteChunk
    \/ RemovePartial
    \/ CloseUpload

UploadSpec == UploadInit /\ [][UploadNext]_vars

\* ------------------------------------------------------------------ C21

\* The failures of the upload's transfer: opening the temp file, reading a
\* chunk, writing a chunk.
TransferFailures == {Some(FailureAt(point)) : point \in {"open", "read", "write"}}

\* C21: when the call is over, upload.close() has been called once whatever
\* the exit (return, failed read or write, failed creation of the temp
\* file); and when the transfer failed, os.remove(path) has been called, the
\* temp file is gone unless that removal itself failed, and the failure is
\* what the call raised.
C21_PartialRemovedAndUploadClosed ==
    up_pc = "done" =>
        /\ up_close_calls = 1
        /\ up_exc \in TransferFailures =>
               /\ up_remove_calls = 1
               /\ ~up_env.remove_fails => up_file = None
               /\ up_out = UploadRaised(up_exc)
        /\ up_exc = None =>
               /\ up_out = UploadReturned(TempPath)
               /\ up_file = Some(up_env.chunks)

\* ------------------------------------------------------------------ C22

\* ACESTEP_DOWNLOAD_SOURCE names this source, in any letter case.
Prefers(source) ==
    IF source = "huggingface"
    THEN dl_env.source \in {"huggingface", "HuggingFace"}
    ELSE dl_env.source \in {"modelscope", "MODELSCOPE"}

\* C22: once the source is chosen, a preference for huggingface has chosen
\* HuggingFace and a preference for modelscope has chosen ModelScope, in any
\* letter case and without a probe; any other value has chosen by one probe,
\* HuggingFace when Google is reachable and ModelScope when not; the first
\* attempt goes to the chosen source, and when it returns no other attempt
\* is made.
C22_PreferenceThenProbe ==
    /\ use_huggingface # None =>
          /\ Prefers("huggingface") => (Val(use_huggingface) /\ probes = 0)
          /\ Prefers("modelscope") => (~Val(use_huggingface) /\ probes = 0)
          /\ (~Prefers("huggingface") /\ ~Prefers("modelscope")) =>
                 (Val(use_huggingface) = dl_env.google /\ probes = 1)
    /\ attempts # <<>> =>
          /\ attempts[1].source =
                 (IF Val(use_huggingface) THEN "huggingface" ELSE "modelscope")
          /\ attempts[1].outcome = "returned" => (dl_pc = "done" /\ Len(attempts) = 1)

C22_Witness ==
    /\ dl_pc = "done"
    /\ dl_env.source = "MODELSCOPE" /\ dl_env.google
    /\ probes = 0
    /\ Len(attempts) = 1
    /\ attempts[1].source = "modelscope" /\ attempts[1].outcome = "returned"

\* ------------------------------------------------------------------ C23

\* The routine was invoked for job j and returned normally.
ReturnedNormally(j) ==
    /\ j \in DOMAIN submitted
    /\ Count(run_calls, j) = 1
    /\ submitted[j].raises = None

\* A put on the progress channel raised in the call for job j.
PutFailed(j) == \E w \in Workers : CallOf(w, j) /\ exc[w] = Some(PutFailure)

\* The routine left job j failed, or succeeded with a non-empty result.
LeftOutcome(j) ==
    \/ submitted[j].status = "failed"
    \/ submitted[j].status = "succeeded" /\ Truthy(submitted[j].result)

\* The record of job j is as the routine left it.
RecordAsLeft(j) ==
    /\ store[j].status = submitted[j].status
    /\ store[j].result = submitted[j].result
    /\ store[j].error = submitted[j].error

\* The ended call for job j published only done and set the signal.
OnlyDone(j) ==
    /\ Listening(j) => Channel(j) = <<DoneEvent>>
    /\ Signalled(j) => SetCalls(j) = 1

\* C23 as stated: after the routine returned normally mark_failed is never
\* called and the record keeps the status, result and error the routine
\* left; when these are not a failure or a success with a result, the ended
\* call has published only done and has set the completion signal.
C23_NormalReturnLeavesRecord ==
    \A j \in Jobs :
        (ReturnedNormally(j) /\ j \in DOMAIN store)
            => /\ MarkFailedCallsOf(j) = <<>>
               /\ RecordAsLeft(j)
               /\ (Ended(j) /\ ~LeftOutcome(j)) => OnlyDone(j)

\* C23 amended: the same, as long as no put on the progress channel has
\* raised in the call. After a put raised, the handler calls mark_failed
\* once with the put's message exactly when the status the routine left is
\* not terminal; the result is kept in every case.
C23_NormalReturnLeavesRecordUnlessPutFails ==
    \A j \in Jobs :
        (ReturnedNormally(j) /\ j \in DOMAIN store)
            => /\ store[j].result = submitted[j].result
               /\ ~PutFailed(j)
                     => /\ MarkFailedCallsOf(j) = <<>>
                        /\ RecordAsLeft(j)
                        /\ (Ended(j) /\ ~LeftOutcome(j)) => OnlyDone(j)
               /\ MarkFailedCallsOf(j) # <<>>
                     => /\ PutFailed(j)
                        /\ ~IsTerminal(submitted[j].status)
                        /\ MarkFailedCallsOf(j) = << <<j, PutFailure>> >>
               /\ (Ended(j) /\ PutFailed(j) /\ ~IsTerminal(submitted[j].status))
                     => MarkFailedCallsOf(j) = << <<j, PutFailure>> >>

C23_Witness ==
    \E j \in Jobs :
        /\ ReturnedNormally(j) /\ Ended(j) /\ ~PutFailed(j)
        /\ j \in DOMAIN store
        /\ store[j].status = "running"
        /\ Listening(j) /\ Channel(j) = <<DoneEvent>>
        /\ Signalled(j) /\ SetCalls(j) = 1
        /\ mark_failed_calls = <<>>

\* ------------------------------- a bounded progress channel and its reader

\* maxsize of the progress channels the callers create.
ChannelCapacity == 1

\* The events of j's channel the caller has not taken yet: qsize().
Unread(j) == Len(Channel(j)) - consumed[j]

\* The caller awaiting job j takes the next event off its channel.
TakeEvent(j) ==
    /\ Listening(j)
    /\ Unread(j) > 0
    /\ consumed' = [consumed EXCEPT ![j] = @ + 1]
    /\ UNCHANGED <<workerVars, loopVars, downloadVars, pathVars, uploadVars>>

\* w's next step is an await rec.progress_queue.put(...) of lines 40, 42,
\* 43, 51 or 52.
AtPut(w) ==
    \/ pc[w] \in {"put_done", "h_error", "h_done"}
    \/ /\ pc[w] = "notify"
       /\ HasQueue(store, rec[w])
       /\ OutcomeEvent(Deref(store, rec[w])) # None

\* The put suspends w while the channel is full.
Blocked(w) == AtPut(w) /\ Unread(Val(rec[w])) >= ChannelCapacity

\* A step of process_queue_item that is not a suspended put.
BoundedStep(w) == ~Blocked(w) /\ ProcessQueueItem(w)

\* What the event loop does for worker w when w can run.
WorkerRuns(w) == DequeueByFirstIdle(w) \/ BoundedStep(w)

\* N workers draining the queue into bounded channels, with callers that
\* read them; the lookup, the puts and the cleanup may raise. The event
\* loop runs every worker that stays able to run; a collaborator's failure
\* may happen but is never forced, and nothing forces a caller to read.
DrainNext ==
    \/ \E j \in Jobs : Submit(j, QueueRequest(j))
    \/ \E w \in Workers : DequeueByFirstIdle(w)
    \/ \E w \in Workers : BoundedStep(w)
    \/ \E w \in Workers : CollaboratorFails(w)
    \/ \E j \in Jobs : TakeEvent(j)

DrainSpec ==
    /\ PoolInit
    /\ [][DrainNext]_vars
    /\ \A w \in Workers : WF_vars(WorkerRuns(w))

\* ------------------------------------------------------------------ C24

\* A worker has taken job j off the queue.
Dequeued(j) ==
    /\ j \in DOMAIN submitted
    /\ \A i \in DOMAIN job_queue : job_queue[i][1] # j

\* process_queue_item(j) has called task_done: the call has ended past
\* line 56, the only way to line 57.
Acknowledged(j) == Ended(j) /\ Count(cleaned, j) = 1

\* job_queue.join() returns: every item put has been acknowledged.
Drained == task_done_calls = Cardinality(DOMAIN submitted)

\* The caller of job j keeps taking what is on its channel.
ReaderKeepsConsuming(j) == WF_vars(TakeEvent(j))

\* The call for j ended at the lookup of line 28 or in the cleanup of
\* line 56, before line 57.
EndedUnacknowledged(j) ==
    /\ Ended(j)
    /\ Count(cleaned, j) = 0
    /\ \E w \in Workers :
           /\ CallOf(w, j)
           /\ pc[w] = "crashed"
           /\ raising[w] \in {Some("lookup"), Some("cleanup")}

\* C24 as stated: with every worker scheduled fairly, a dequeued job whose
\* reader keeps consuming is eventually acknowledged with task_done,
\* whatever the other readers do; when all readers keep consuming, a
\* producer waiting in join() is released again and again; and a worker
\* suspended in a put does not hold the pending lock.
C24_EveryDequeuedJobAcknowledged ==
    /\ \A j \in Jobs :
           ReaderKeepsConsuming(j) => (Dequeued(j) ~> Acknowledged(j))
    /\ (\A j \in Jobs : ReaderKeepsConsuming(j)) => []<>Drained
    /\ [](\A w \in Workers : Blocked(w) => pending_lock # Some(w))

\* What the code gives instead: the call for a dequeued job whose reader
\* keeps consuming eventually ends, acknowledged unless the lookup or the
\* cleanup raised; a suspended put never holds the pending lock.
C24_AcknowledgedUnlessLookupOrCleanupRaises ==
    /\ \A j \in Jobs :
           ReaderKeepsConsuming(j)
               => (Dequeued(j) ~> (Acknowledged(j) \/ EndedUnacknowledged(j)))
    /\ [](\A w \in Workers : Blocked(w) => pending_lock # Some(w))

\* A worker is suspended in a put on a full channel while another job has
\* been acknowledged.
C24_BlockedWhileOtherAcknowledged ==
    \E w \in Workers : \E j \in Jobs :
        /\ Blocked(w)
        /\ ~CallOf(w, j)
        /\ Acknowledged(j)

====
